---------------------------- MODULE Spec2Model ----------------------------
(***************************************************************************)
(* A model of serve.py: a static-file HTTPS development server.            *)
(*                                                                         *)
(* serve.py is a script of module-level statements.  After its constants   *)
(* and the MIME table update it builds http.server.HTTPServer (which binds *)
(* and listens), loads the certificate chain into an SSLContext, replaces  *)
(* the listening socket by its TLS wrapping and calls serve_forever().     *)
(* The request handling is that of the handler class the script selects,   *)
(* http.server.SimpleHTTPRequestHandler, driven by the single-threaded     *)
(* socketserver accept loop; both are modelled by what they do for the     *)
(* script.                                                                 *)
(***************************************************************************)
EXTENDS Integers, Sequences, FiniteSets, TLC

(***************************************************************************)
(* Bounds of the model.                                                    *)
(***************************************************************************)
\* Number of client connections that may arrive during one run.
MaxConns == 2
\* Longest request path, in segments.
MaxDepth == 2
\* Cap on the request lines read on one connection (the code has no cap).
MaxReqs == 2

Conns == 1..MaxConns

VARIABLES
    certOk,           \* environment: certs/server.crt and server.key load
    portFree,         \* environment: localhost:PORT can be bound
    pc,               \* "startup" | "serving" | "exited"
    ip,               \* index of the next startup statement
    startupLog,       \* startup statements completed, in order
    listener,         \* httpd.socket: "none" | "listening" | "tls" | "closed" | "released"
    exitCode,         \* exit status of the process, -1 while it runs
    cause,            \* why it ended: "none" | "startup" | "interrupt" | "error"
    diag,             \* a traceback was printed
    cstate,           \* per connection: its position
    handling,         \* connection the server thread is busy with, 0 if none
    cur,              \* connection accepted last, 0 if none: the one the
                      \* socket and handler state below belongs to
    tlsres,           \* its TLS session: "none" | "ok" | "failed"
    nreq,             \* request lines read on it
    served,           \* response bytes were written to it
    req,              \* the handler's request
    resp,             \* the response the handler wrote
    close_connection  \* handler.close_connection

vars == <<certOk, portFree, pc, ip, startupLog, listener, exitCode, cause,
          diag, cstate, handling, cur, tlsres, nreq, served, req, resp,
          close_connection>>

procVars == <<pc, ip, startupLog, listener, exitCode, cause, diag>>
envVars  == <<certOk, portFree>>
connVars == <<cstate, handling, cur>>
sockVars == <<tlsres, nreq, served>>
httpVars == <<req, resp, close_connection>>

(***************************************************************************)
(* The file system the server runs on.  Paths are sequences of names from  *)
(* the root.                                                               *)
(***************************************************************************)
BASE_DIR == <<"srv">>

Dirs == {<<>>, <<"srv">>, <<"srv", "docs">>}

Files ==
    ( <<"secret">>                  :> [size |-> 6,  content |-> "top secret",   readable |-> TRUE]  @@
      <<"srv", "index.html">>       :> [size |-> 12, content |-> "<h1>Hi</h1>",  readable |-> TRUE]  @@
      <<"srv", "app.js">>           :> [size |-> 20, content |-> "js source",    readable |-> TRUE]  @@
      <<"srv", "LOGO.PNG">>         :> [size |-> 7,  content |-> "png bytes",    readable |-> TRUE]  @@
      <<"srv", "data.bin">>         :> [size |-> 5,  content |-> "raw bytes",    readable |-> TRUE]  @@
      <<"srv", "docs", "data.bin">> :> [size |-> 3,  content |-> "locked bytes", readable |-> FALSE] )

isdir(path) == path \in Dirs
isfile(path) == path \in DOMAIN Files

IsPrefix(s, t) == Len(s) <= Len(t) /\ SubSeq(t, 1, Len(s)) = s

(***************************************************************************)
(* Requests.                                                               *)
(***************************************************************************)
Segs == {"..", "%2e%2e", "app.js", "LOGO.PNG", "data.bin", "docs",
         "index.html", "secret"}

SeqsUpTo(S, n) == UNION {[1..k -> S] : k \in 0..n}

\* A request path: rooted (starts with "/"), its segments, trailing "/".
\* The empty word is no request path; "/" is rooted and ends in "/".
Paths ==
    {p \in [rooted : BOOLEAN, segs : SeqsUpTo(Segs, MaxDepth), slash : BOOLEAN] :
        p.segs = <<>> => (p.rooted /\ p.slash)}

Methods == {"GET", "HEAD", "POST"}

\* What the client puts on the request line after method and path:
\* nothing (an HTTP/0.9 simple request), a version, or a word that is no
\* version.
Versions == {"HTTP/0.9", "HTTP/1.0", "HTTP/1.1", "HTTP/2.0", "garbage"}

\* The header block: empty, an If-Modified-Since whose date is not older
\* than the file, or a block with an over-long line.
Headers == {"none", "If-Modified-Since", "too-long"}

NoReq == [method |-> "", path |-> [rooted |-> TRUE, segs |-> <<>>, slash |-> TRUE],
          version |-> "", hdr |-> "none", parsed |-> FALSE]

\* readline() returns no bytes: the client closed without a request.
EndOfStream == [method |-> "", path |-> NoReq.path, version |-> "eof"]

RequestLines ==
    {EndOfStream} \cup [method : Methods, path : Paths, version : Versions]

NoResp == [status |-> 0, head |-> FALSE, ctype |-> "", clen |-> -1,
           body |-> "", file |-> <<>>, complete |-> FALSE]

(***************************************************************************)
(* The handler class: http.server.SimpleHTTPRequestHandler.                *)
(***************************************************************************)
\* Variant: a handler that speaks HTTP/1.1 and keeps connections alive.
protocol_version_11 == "HTTP/1.1"

\* BaseHTTPRequestHandler.protocol_version, which the script leaves alone.
protocol_version == "HTTP/1.0"

\* (major, minor) of a version word as parse_request computes it, as one
\* number; 0 for a word that is no version.
VersionNumber(v) ==
    CASE v = "HTTP/0.9" -> 9
      [] v = "HTTP/1.0" -> 10
      [] v = "HTTP/1.1" -> 11
      [] v = "HTTP/2.0" -> 20
      [] OTHER -> 0

\* The methods the handler class defines: do_GET and do_HEAD.
HasMethod(command) == command \in {"GET", "HEAD"}

\* Variant: a handler that answers a known method it lacks with 405.
UnsupportedStatusAs(command) == IF command = "POST" THEN 405 ELSE 501

\* handle_one_request: the status sent when the handler has no
\* do_<command> attribute, NOT_IMPLEMENTED.
UnsupportedStatus(command) == 501

\* Variant: the class's table without the script's update.
extensions_map_builtin ==
    ( ".gz"  :> "application/gzip" @@
      ".Z"   :> "application/octet-stream" @@
      ".bz2" :> "application/x-bzip2" @@
      ".xz"  :> "application/x-xz" )

\* The extension table after the script's update: the six rows of the
\* script over the class's built-in rows.
extensions_map ==
    ( ".js"   :> "application/javascript" @@
      ".css"  :> "text/css" @@
      ".html" :> "text/html" @@
      ".json" :> "application/json" @@
      ".png"  :> "image/png" @@
      ".xml"  :> "application/xml" @@
      ".gz"   :> "application/gzip" @@
      ".Z"    :> "application/octet-stream" @@
      ".bz2"  :> "application/x-bzip2" @@
      ".xz"   :> "application/x-xz" )

\* mimetypes.guess_type: the interpreter's own table, for the extensions of
\* the modelled files ("" when it knows none).
mimetypes_guess ==
    ( ".js"   :> "text/javascript" @@
      ".html" :> "text/html" @@
      ".png"  :> "image/png" @@
      ".bin"  :> "application/octet-stream" )

\* posixpath.splitext of a file name, on the modelled names.
splitext(name) ==
    CASE name = "app.js"     -> ".js"
      [] name = "index.html" -> ".html"
      [] name = "index.htm"  -> ".htm"
      [] name = "LOGO.PNG"   -> ".PNG"
      [] name = "data.bin"   -> ".bin"
      [] OTHER               -> ""

\* str.lower on the modelled extensions.
lower(ext) == IF ext = ".PNG" THEN ".png" ELSE ext

\* SimpleHTTPRequestHandler.guess_type.
guess_type(path) ==
    LET ext == IF path = <<>> THEN "" ELSE splitext(path[Len(path)])
    IN  IF ext \in DOMAIN extensions_map THEN extensions_map[ext]
        ELSE IF lower(ext) \in DOMAIN extensions_map THEN extensions_map[lower(ext)]
        ELSE IF lower(ext) \in DOMAIN mimetypes_guess THEN mimetypes_guess[lower(ext)]
        ELSE "application/octet-stream"

\* urllib.parse.unquote on one segment.
unquote(w) == IF w = "%2e%2e" THEN ".." ELSE w

\* posixpath.normpath: "." and empty components go, ".." removes the
\* component before it, is dropped at the root of a rooted path and is kept
\* at the front of a relative one.
RECURSIVE normpath(_, _, _)
normpath(rooted, comps, new_comps) ==
    IF comps = <<>> THEN new_comps
    ELSE LET comp == Head(comps)
             n    == Len(new_comps)
         IN  IF comp \in {"", "."}
             THEN normpath(rooted, Tail(comps), new_comps)
             ELSE IF \/ comp # ".."
                     \/ (~rooted /\ n = 0)
                     \/ (n > 0 /\ new_comps[n] = "..")
             THEN normpath(rooted, Tail(comps), Append(new_comps, comp))
             ELSE IF n > 0
             THEN normpath(rooted, Tail(comps), SubSeq(new_comps, 1, n - 1))
             ELSE normpath(rooted, Tail(comps), new_comps)

\* The words translate_path joins to the directory: those that are neither
\* os.curdir nor os.pardir.
RECURSIVE simple_words(_)
simple_words(words) ==
    IF words = <<>> THEN <<>>
    ELSE IF Head(words) \in {".", ".."} THEN simple_words(Tail(words))
    ELSE <<Head(words)>> \o simple_words(Tail(words))

\* A path from a directory as the file system resolves it: ".." is the
\* parent.
RECURSIVE resolve(_, _)
resolve(at, words) ==
    IF words = <<>> THEN at
    ELSE IF Head(words) = ".."
    THEN resolve(IF at = <<>> THEN at ELSE SubSeq(at, 1, Len(at) - 1), Tail(words))
    ELSE resolve(Append(at, Head(words)), Tail(words))

\* Variant: the directory joined with the decoded request path, neither
\* normalised nor filtered; also the location a request path names when
\* it is taken from the base directory.
translate_path_unconfined(path) ==
    resolve(BASE_DIR, [i \in 1..Len(path.segs) |-> unquote(path.segs[i])])

\* SimpleHTTPRequestHandler.translate_path (its trailing "/" is path.slash).
translate_path(path) ==
    LET decoded == [i \in 1..Len(path.segs) |-> unquote(path.segs[i])]
    IN  BASE_DIR \o simple_words(normpath(path.rooted, decoded, <<>>))

\* The handler's request_version when it writes: parse_request stores the
\* client's version only once it has accepted it; until then it is the
\* default, HTTP/0.9.
request_version(r) ==
    IF r.version \in {"HTTP/1.0", "HTTP/1.1"} THEN r.version ELSE "HTTP/0.9"

\* send_response_only, send_header and end_headers write the status line
\* and the headers unless request_version is HTTP/0.9.
head_written(r) == request_version(r) # "HTTP/0.9"

\* Length of a page the handler generates (an error page, a listing); the
\* numbers stand for the lengths of the generated texts.
generated_len(page) == IF page = "listing" THEN 40 ELSE 30

\* send_error: status line and headers, then an HTML page unless the
\* command is HEAD.
send_error(status, r, command) ==
    [status |-> status, head |-> head_written(r), ctype |-> "text/html",
     clen |-> generated_len("error"),
     body |-> IF command = "HEAD" THEN "" ELSE "error page",
     file |-> <<>>, complete |-> TRUE]

\* send_head once path names no directory: a trailing "/" or a failing
\* open() is 404, a satisfied If-Modified-Since is 304, else 200 with the
\* type by extension and the length from fstat.
send_file_head(path, slash, r) ==
    IF slash \/ ~isfile(path) \/ ~Files[path].readable
    THEN send_error(404, r, r.method)
    ELSE IF r.hdr = "If-Modified-Since"
    THEN [status |-> 304, head |-> head_written(r), ctype |-> "", clen |-> -1,
          body |-> "", file |-> path, complete |-> FALSE]
    ELSE [status |-> 200, head |-> head_written(r), ctype |-> guess_type(path),
          clen |-> Files[path].size,
          body |-> IF r.method = "GET" THEN Files[path].content ELSE "",
          file |-> path, complete |-> FALSE]

\* SimpleHTTPRequestHandler.send_head with do_GET's copyfile: the response
\* to a GET or HEAD request.
send_head(r) ==
    LET path == translate_path(r.path)
    IN  IF isdir(path)
        THEN IF ~r.path.slash
             THEN [status |-> 301, head |-> head_written(r), ctype |-> "",
                   clen |-> 0, body |-> "", file |-> <<>>, complete |-> FALSE]
             ELSE IF isfile(path \o <<"index.html">>)
             THEN send_file_head(path \o <<"index.html">>, FALSE, r)
             ELSE IF isfile(path \o <<"index.htm">>)
             THEN send_file_head(path \o <<"index.htm">>, FALSE, r)
             ELSE [status |-> 200, head |-> head_written(r), ctype |-> "text/html",
                   clen |-> generated_len("listing"),
                   body |-> IF r.method = "GET" THEN "listing" ELSE "",
                   file |-> path, complete |-> FALSE]
        ELSE send_file_head(path, r.path.slash, r)

\* parse_request on the request line: the status it answers with, 0 when
\* the line is accepted.
parse_request_line(line) ==
    IF line.version = "garbage" THEN 400
    ELSE IF VersionNumber(line.version) >= 20 THEN 505
    ELSE IF line.version = "HTTP/0.9" /\ line.method # "GET" THEN 400
    ELSE 0

\* close_connection as parse_request leaves it for an accepted request
\* line (the modelled header blocks hold no Connection header).
close_after_line(line) ==
    ~(/\ line.version # "HTTP/0.9"
      /\ VersionNumber(line.version) >= 11
      /\ VersionNumber(protocol_version) >= 11)

(***************************************************************************)
(* The script's statements, lines 24 to 32.                                *)
(***************************************************************************)
\* Variant: the certificate is loaded before the server is built.
StartupOrderCertFirst ==
    <<"load_cert_chain", "HTTPServer", "wrap_socket", "serve_forever">>

\* The order of the script's statements.
StartupOrder ==
    <<"HTTPServer", "load_cert_chain", "wrap_socket", "serve_forever">>

Stmt == IF pc = "startup" THEN StartupOrder[ip] ELSE ""

\* Variant: a failure to load is swallowed.
load_cert_chain_unchecked(valid) == "loaded"

\* ssl_ctx.load_cert_chain: returns, or raises on a missing or invalid file.
load_cert_chain(valid) == IF valid THEN "loaded" ELSE "raise"

\* Variant: the listening socket is left as it is.
wrap_socket_plain(sock) == sock

\* ssl_ctx.wrap_socket(httpd.socket, server_side=True).
wrap_socket(sock) == "tls"

\* Variant: the exception leaves serve_forever.
handle_error_raise(exc) == "raise"

\* What the accept loop does with an exception of connection handling:
\* get_request's OSError returns, a handler's Exception goes to
\* handle_error; the loop goes on.
handle_error(exc) == "continue"

\* Variant: a server that hands each connection to a thread of its own.
CanAcceptThreaded == TRUE

\* BaseServer.serve_forever accepts when its one thread is in select().
CanAccept == handling = 0

\* Process exit: the kernel releases the listening socket, resets the
\* connections still in its backlog and closes the open one; the handler
\* and its socket go with the process.
TearDown(cs) ==
    [c \in Conns |-> IF cs[c] = "QUEUED" THEN "RESET"
                     ELSE IF cs[c] \in {"IDLE", "RESET", "CLOSED"} THEN cs[c]
                     ELSE "CLOSED"]

Released(l) == IF l = "none" THEN "none" ELSE "released"

Exit(code, why) ==
    /\ pc' = "exited"
    /\ exitCode' = code
    /\ cause' = why
    /\ diag' = TRUE
    /\ listener' = Released(listener)
    /\ cstate' = TearDown(cstate)
    /\ handling' = 0
    /\ tlsres' = "none"
    /\ nreq' = 0
    /\ served' = FALSE
    /\ req' = NoReq
    /\ resp' = NoResp
    /\ close_connection' = TRUE
    /\ UNCHANGED <<envVars, ip, startupLog, cur>>

\* An exception nobody catches: traceback, exit status 1.
Crash(why) == Exit(1, why)

Advance ==
    /\ ip' = ip + 1
    /\ startupLog' = Append(startupLog, Stmt)
    /\ pc' = IF Stmt = "serve_forever" THEN "serving" ELSE "startup"
    /\ UNCHANGED <<envVars, exitCode, cause, diag>>

Init ==
    /\ certOk \in BOOLEAN
    /\ portFree \in BOOLEAN
    /\ pc = "startup"
    /\ ip = 1
    /\ startupLog = <<>>
    /\ listener = "none"
    /\ exitCode = -1
    /\ cause = "none"
    /\ diag = FALSE
    /\ cstate = [c \in Conns |-> "IDLE"]
    /\ handling = 0
    /\ cur = 0
    /\ tlsres = "none"
    /\ nreq = 0
    /\ served = FALSE
    /\ req = NoReq
    /\ resp = NoResp
    /\ close_connection = TRUE

\* Line 24: HTTPServer(('localhost', PORT), handler) binds and listens, or
\* raises OSError when the port is taken.
Bind ==
    /\ Stmt = "HTTPServer"
    /\ IF portFree
       THEN /\ Advance
            /\ listener' = "listening"
            /\ UNCHANGED <<connVars, sockVars, httpVars>>
       ELSE Crash("startup")

\* Lines 26-27: the context is created and the certificate chain loaded.
LoadCert ==
    /\ Stmt = "load_cert_chain"
    /\ IF load_cert_chain(certOk) = "loaded"
       THEN /\ Advance
            /\ UNCHANGED <<listener, connVars, sockVars, httpVars>>
       ELSE Crash("startup")

\* Line 28: httpd.socket becomes the TLS wrapping of the listening socket.
Wrap ==
    /\ Stmt = "wrap_socket"
    /\ listener # "none"
    /\ Advance
    /\ listener' = wrap_socket(listener)
    /\ UNCHANGED <<connVars, sockVars, httpVars>>

\* Lines 30-32: the banner, then serve_forever().
Serve ==
    /\ Stmt = "serve_forever"
    /\ Advance
    /\ UNCHANGED <<listener, connVars, sockVars, httpVars>>

\* SIGINT: KeyboardInterrupt is raised in the main thread and nothing in
\* the script catches it.  The interpreter prints the traceback and ends
\* with status 1 or, re-raising the signal, as killed by SIGINT (130).
Interrupt ==
    /\ pc \in {"startup", "serving"}
    /\ \E code \in {1, 130} : Exit(code, "interrupt")

(***************************************************************************)
(* Clients and the accept loop.                                            *)
(***************************************************************************)
Active == {"ACCEPTED", "TLS_HANDSHAKE", "REQUEST_LINE", "HEADERS",
           "DISPATCH", "RESPONSE"}

\* A client connects: the kernel completes the TCP handshake as soon as the
\* socket listens and queues the connection.  Clients are numbered in the
\* order they arrive.
Connect(c) ==
    /\ pc # "exited"
    /\ listener \in {"listening", "tls"}
    /\ cstate[c] = "IDLE"
    /\ \A d \in Conns : d < c => cstate[d] # "IDLE"
    /\ cstate' = [cstate EXCEPT ![c] = "QUEUED"]
    /\ UNCHANGED <<envVars, procVars, handling, cur, sockVars, httpVars>>

\* serve_forever: select() reports the listening socket readable and
\* get_request() calls accept(), which returns the oldest queued
\* connection; a new socket and, later, a new handler serve it.
Accept(c) ==
    /\ pc = "serving"
    /\ CanAccept
    /\ cstate[c] = "QUEUED"
    /\ \A d \in Conns : d < c => cstate[d] # "QUEUED"
    /\ cstate' = [cstate EXCEPT ![c] = "ACCEPTED"]
    /\ handling' = c
    /\ cur' = c
    /\ tlsres' = "none"
    /\ nreq' = 0
    /\ served' = FALSE
    /\ req' = NoReq
    /\ resp' = NoResp
    /\ close_connection' = TRUE
    /\ UNCHANGED <<envVars, procVars>>

\* SSLSocket.accept wraps the new socket and starts the handshake; the
\* accept of a plain listening socket hands the connection to the handler.
StartHandshake(c) ==
    /\ pc = "serving"
    /\ handling = c
    /\ cstate[c] = "ACCEPTED"
    /\ cstate' = [cstate EXCEPT ![c] =
                    IF listener = "tls" THEN "TLS_HANDSHAKE" ELSE "REQUEST_LINE"]
    /\ UNCHANGED <<envVars, procVars, handling, cur, sockVars, httpVars>>

\* The connection ends: shutdown_request, and the loop is back in select().
CloseConn(c) ==
    /\ cstate' = [cstate EXCEPT ![c] = "CLOSED"]
    /\ handling' = 0
    /\ UNCHANGED <<envVars, procVars, cur>>

\* do_handshake with what the client sends: a ClientHello that leads to a
\* session, plaintext (an HTTP request), or a TLS alert or disconnect.  A
\* failure raises SSLError, an OSError, out of get_request.
Handshake(c) ==
    /\ pc = "serving"
    /\ handling = c
    /\ cstate[c] = "TLS_HANDSHAKE"
    /\ \E hello \in {"tls", "plain", "alert"} :
        IF hello = "tls"
        THEN /\ tlsres' = "ok"
             /\ cstate' = [cstate EXCEPT ![c] = "REQUEST_LINE"]
             /\ UNCHANGED <<envVars, procVars, handling, cur, nreq, served, httpVars>>
        ELSE IF handle_error("SSLError") = "continue"
        THEN /\ tlsres' = "failed"
             /\ CloseConn(c)
             /\ UNCHANGED <<nreq, served, httpVars>>
        ELSE Crash("error")

\* handle_one_request reads the request line: end of stream ends the
\* connection, a line parse_request refuses is answered and ends it
\* (command and path stay unset), an accepted line leads to the headers.
ReadRequestLine(c) ==
    /\ pc = "serving"
    /\ handling = c
    /\ cstate[c] = "REQUEST_LINE"
    /\ nreq < MaxReqs
    /\ nreq' = nreq + 1
    /\ tlsres' = tlsres
    /\ \E line \in RequestLines :
        IF line = EndOfStream
        THEN /\ req' = NoReq
             /\ resp' = NoResp
             /\ close_connection' = TRUE
             /\ served' = served
             /\ CloseConn(c)
        ELSE LET status == parse_request_line(line)
                 refused == [NoReq EXCEPT !.method = line.method,
                                          !.version = line.version]
                 r == [method |-> line.method, path |-> line.path,
                       version |-> line.version, hdr |-> "none",
                       parsed |-> FALSE]
             IN  IF status # 0
                 THEN /\ req' = refused
                      /\ resp' = send_error(status, refused, "")
                      /\ close_connection' = TRUE
                      /\ served' = TRUE
                      /\ CloseConn(c)
                 ELSE /\ req' = r
                      /\ resp' = NoResp
                      /\ close_connection' = close_after_line(line)
                      /\ served' = served
                      /\ cstate' = [cstate EXCEPT ![c] = "HEADERS"]
                      /\ UNCHANGED <<envVars, procVars, handling, cur>>

\* parse_request reads the header block.
ReadHeaders(c) ==
    /\ pc = "serving"
    /\ handling = c
    /\ cstate[c] = "HEADERS"
    /\ UNCHANGED <<tlsres, nreq>>
    /\ \E hdr \in Headers :
        IF hdr = "too-long"
        THEN /\ req' = [req EXCEPT !.hdr = hdr]
             /\ resp' = send_error(431, req, "")
             /\ close_connection' = TRUE
             /\ served' = TRUE
             /\ CloseConn(c)
        ELSE /\ req' = [req EXCEPT !.hdr = hdr, !.parsed = TRUE]
             /\ cstate' = [cstate EXCEPT ![c] = "DISPATCH"]
             /\ UNCHANGED <<envVars, procVars, handling, cur, served, resp,
                            close_connection>>

\* handle_one_request looks up do_<command>: without it 501 and the
\* connection ends, with it do_GET or do_HEAD writes the head.
Dispatch(c) ==
    /\ pc = "serving"
    /\ handling = c
    /\ cstate[c] = "DISPATCH"
    /\ served' = TRUE
    /\ IF ~HasMethod(req.method)
       THEN /\ resp' = send_error(UnsupportedStatus(req.method), req, req.method)
            /\ close_connection' = TRUE
            /\ CloseConn(c)
       ELSE /\ resp' = send_head(req)
            /\ close_connection' = (close_connection \/ send_head(req).status = 404)
            /\ cstate' = [cstate EXCEPT ![c] = "RESPONSE"]
            /\ UNCHANGED <<envVars, procVars, handling, cur>>
    /\ UNCHANGED <<tlsres, nreq, req>>

\* The body is written and flushed; handle() reads another request only if
\* close_connection is false.
FinishResponse(c) ==
    /\ pc = "serving"
    /\ handling = c
    /\ cstate[c] = "RESPONSE"
    /\ resp' = [resp EXCEPT !.complete = TRUE]
    /\ IF close_connection
       THEN CloseConn(c)
       ELSE /\ cstate' = [cstate EXCEPT ![c] = "REQUEST_LINE"]
            /\ UNCHANGED <<envVars, procVars, handling, cur>>
    /\ UNCHANGED <<sockVars, req, close_connection>>

\* The client goes away while the response is written: the write raises
\* BrokenPipeError or ConnectionResetError in the handler.
WriteError(c) ==
    /\ pc = "serving"
    /\ handling = c
    /\ cstate[c] = "RESPONSE"
    /\ IF handle_error("BrokenPipeError") = "continue"
       THEN /\ resp' = [resp EXCEPT !.body = "", !.complete = FALSE]
            /\ CloseConn(c)
            /\ UNCHANGED <<sockVars, req, close_connection>>
       ELSE Crash("error")

Next ==
    \/ Bind
    \/ LoadCert
    \/ Wrap
    \/ Serve
    \/ Interrupt
    \/ \E c \in Conns : Connect(c)
    \/ \E c \in Conns : Accept(c)
    \/ \E c \in Conns : StartHandshake(c)
    \/ \E c \in Conns : Handshake(c)
    \/ \E c \in Conns : ReadRequestLine(c)
    \/ \E c \in Conns : ReadHeaders(c)
    \/ \E c \in Conns : Dispatch(c)
    \/ \E c \in Conns : FinishResponse(c)
    \/ \E c \in Conns : WriteError(c)

Spec == Init /\ [][Next]_vars

(***************************************************************************)
(* Properties.                                                             *)
(***************************************************************************)
InRequest == {"REQUEST_LINE", "HEADERS", "DISPATCH", "RESPONSE"}

\* serve_forever() was entered.
EverServing == Len(startupLog) = 4

\* The handler answered an accepted GET or HEAD request.
AnsweredGetOrHead ==
    /\ cur # 0
    /\ req.parsed
    /\ req.method \in {"GET", "HEAD"}
    /\ resp.status # 0

\* The request path, taken from the base directory as the file system
\* resolves it, leaves the base directory.
Escapes(path) == ~IsPrefix(BASE_DIR, translate_path_unconfined(path))

OutsideContents == {Files[f].content : f \in {g \in DOMAIN Files : ~IsPrefix(BASE_DIR, g)}}

\* C1: on every accepted connection the TLS handshake has succeeded before
\* a request line is read or a response byte written; a connection whose
\* handshake fails (a plaintext client included) reads no request, gets no
\* response and is closed.
C1_HandshakeBeforeHttp ==
    /\ (nreq > 0 \/ served \/ resp # NoResp \/ req # NoReq) => tlsres = "ok"
    /\ \A c \in Conns : cstate[c] \in InRequest => (c = cur /\ tlsres = "ok")
    /\ tlsres = "failed" => (cstate[cur] = "CLOSED" /\ nreq = 0 /\ ~served)

C1_Witness ==
    /\ pc = "serving"
    /\ cur # 0
    /\ tlsres = "failed"
    /\ cstate[cur] = "CLOSED"

\* C2 as stated: a path that normalizes outside the base directory is
\* answered 403 or 404 and no file outside the base directory is opened.
C2_EscapingPathRejected ==
    (AnsweredGetOrHead /\ Escapes(req.path)) =>
        /\ resp.status \in {403, 404}
        /\ (resp.file # <<>> => IsPrefix(BASE_DIR, resp.file))

\* C2 amended: every file opened for a response lies beneath the base
\* directory; a path that normalizes outside it is not refused as such:
\* its escaping ".." segments are dropped, the rest is looked up beneath
\* the base directory and answered as that location is (200, 301, 304 or
\* 404, never 403), never with the contents of a file outside.
C2_OpenedFilesBeneathBase ==
    /\ resp.file # <<>> => IsPrefix(BASE_DIR, resp.file)
    /\ (AnsweredGetOrHead /\ Escapes(req.path)) =>
        /\ resp.status \in {200, 301, 304, 404}
        /\ resp.body \notin OutsideContents
        /\ (resp.status \in {200, 304} => IsPrefix(BASE_DIR, resp.file))

C2_Witness ==
    /\ AnsweredGetOrHead
    /\ Escapes(req.path)
    /\ req.path.segs = <<"%2e%2e", "app.js">>
    /\ resp.status = 200
    /\ resp.file = <<"srv", "app.js">>
    /\ resp.complete

\* C3: when the certificate or key does not load, or the port is taken,
\* the process never enters the accept loop and accepts no connection, and
\* the exit that the failure causes has a non-zero status and a diagnostic.
C3_StartupFailureNeverServes ==
    /\ (~certOk \/ ~portFree) =>
        /\ pc # "serving"
        /\ ~EverServing
        /\ cur = 0
        /\ \A c \in Conns : cstate[c] \in {"IDLE", "QUEUED", "RESET"}
    /\ (pc = "exited" /\ cause = "startup") =>
        /\ exitCode # 0
        /\ diag
        /\ (~certOk \/ ~portFree)

C3_Witness ==
    /\ pc = "exited"
    /\ cause = "startup"
    /\ ~certOk
    /\ \E c \in Conns : cstate[c] = "RESET"

\* C4 as stated: the accept loop ends only by an interrupt, and then the
\* listening socket has been closed by the program and the exit status is 0.
C4_InterruptExitsZero ==
    (pc = "exited" /\ EverServing) =>
        /\ cause = "interrupt"
        /\ listener = "closed"
        /\ exitCode = 0

\* C5 as stated: a request with a method other than GET and HEAD is
\* answered 405.
C5_UnsupportedMethod405 ==
    (cur # 0 /\ req.parsed /\ req.method \notin {"GET", "HEAD"} /\ resp.status # 0)
        => resp.status = 405

\* C5 amended: a request that parses (request line with an HTTP/1.x
\* version, header block accepted) and whose method is neither GET nor
\* HEAD is answered 501, whatever its path, and the connection is closed.
C5_UnsupportedMethod501 ==
    (cur # 0 /\ req.parsed /\ req.method \notin {"GET", "HEAD"} /\ resp.status # 0)
        => /\ resp.status = 501
           /\ resp.head
           /\ resp.file = <<>>
           /\ cstate[cur] = "CLOSED"

C5_Witness ==
    /\ cur # 0
    /\ req.parsed
    /\ req.method = "POST"
    /\ req.path.segs = <<"docs", "app.js">>
    /\ resp.status = 501

\* C6: the process leaves the accept loop only by an interrupt; a step that
\* ends a connection for any other reason (refused request, 4xx or 5xx
\* answer, failed handshake, client gone during the response) leaves the
\* process running, the TLS listener open and the loop free to accept.
C6_ErrorsKeepServing ==
    [][ /\ (pc = "serving" /\ pc' = "exited") => cause' = "interrupt"
        /\ (\E c \in Conns : /\ cstate[c] \in Active
                             /\ cstate'[c] = "CLOSED"
                             /\ cause' # "interrupt")
            => /\ pc' = "serving"
               /\ exitCode' = -1
               /\ listener' = "tls"
               /\ handling' = 0 ]_vars

C6_Witness ==
    /\ pc = "serving"
    /\ listener = "tls"
    /\ handling = 0
    /\ cur = 1
    /\ cstate[1] = "CLOSED"
    /\ (tlsres = "failed" \/ resp.status \in {400, 404, 431, 501, 505} \/ (served /\ ~resp.complete))
    /\ cstate[2] = "QUEUED"

\* C7 as stated: certificate and key are loaded first, then the listener
\* is bound, wrapped and served; no port is bound when loading fails.
C7_CertLoadedBeforeBind ==
    /\ IsPrefix(startupLog, <<"load_cert_chain", "HTTPServer", "wrap_socket", "serve_forever">>)
    /\ ~certOk => listener = "none"

\* C7 amended: the listener is bound first, then certificate and key are
\* loaded, then the listening socket is wrapped, then the accept loop
\* starts; when loading fails the port has been bound and is released by
\* the exit, and the socket is neither wrapped nor served.
C7_BindBeforeCertLoad ==
    /\ IsPrefix(startupLog, <<"HTTPServer", "load_cert_chain", "wrap_socket", "serve_forever">>)
    /\ listener = "none" <=> startupLog = <<>>
    /\ listener = "tls" => Len(startupLog) >= 3
    /\ pc = "serving" => Len(startupLog) = 4
    /\ (~certOk /\ pc = "exited" /\ cause = "startup" /\ portFree) =>
        /\ startupLog = <<"HTTPServer">>
        /\ listener = "released"

C7_Witness ==
    /\ pc = "exited"
    /\ cause = "startup"
    /\ ~certOk
    /\ startupLog = <<"HTTPServer">>
    /\ listener = "released"

\* The file a request path names when it is the URL of a file beneath the
\* base directory: rooted, no trailing "/", the file's own segments.
IsFileUrl(path) ==
    /\ path.rooted
    /\ ~path.slash
    /\ path.segs # <<>>
    /\ (BASE_DIR \o path.segs) \in DOMAIN Files

FileOfUrl(path) == BASE_DIR \o path.segs

\* The content type the extension table gives a file name.
TypeByExtension(name) ==
    CASE name = "app.js"     -> "application/javascript"
      [] name = "index.html" -> "text/html"
      [] name = "LOGO.PNG"   -> "image/png"
      [] OTHER               -> "application/octet-stream"

FileResponseOk(f) ==
    /\ resp.status = 200
    /\ resp.head
    /\ resp.clen = Files[f].size
    /\ resp.ctype = TypeByExtension(f[Len(f)])
    /\ resp.body = Files[f].content
    /\ resp.file = f

\* C8 as stated: every GET for the URL of an existing regular file beneath
\* the base directory yields 200, its size, its type by extension and its
\* contents.
C8_GetFileAlways200 ==
    (cur # 0 /\ req.parsed /\ req.method = "GET" /\ IsFileUrl(req.path) /\ resp.complete)
        => FileResponseOk(FileOfUrl(req.path))

\* C8 amended: for every existing, readable regular file f beneath the base
\* directory, a GET for f's URL with an HTTP/1.x request line and without
\* an If-Modified-Since date that is not older than f yields 200, a
\* Content-Length equal to f's size, the Content-Type of f's extension
\* (looked up as written and in lower case, application/octet-stream when
\* unknown) and f's contents.
C8_GetFile200 ==
    (/\ cur # 0
     /\ req.parsed
     /\ req.method = "GET"
     /\ IsFileUrl(req.path)
     /\ resp.complete
     /\ req.version \in {"HTTP/1.0", "HTTP/1.1"}
     /\ req.hdr # "If-Modified-Since"
     /\ Files[FileOfUrl(req.path)].readable)
        => FileResponseOk(FileOfUrl(req.path))

C8_Witness ==
    /\ cur # 0
    /\ req.method = "GET"
    /\ req.path = [rooted |-> TRUE, segs |-> <<"LOGO.PNG">>, slash |-> FALSE]
    /\ resp.complete
    /\ resp.status = 200
    /\ resp.ctype = "image/png"
    /\ resp.clen = 7

ConnOrder == <<"ACCEPTED", "TLS_HANDSHAKE", "REQUEST_LINE", "HEADERS",
               "DISPATCH", "RESPONSE", "CLOSED">>

\* C9: a connection changes state only from one state of ACCEPTED,
\* TLS_HANDSHAKE, REQUEST_LINE, HEADERS, DISPATCH, RESPONSE, CLOSED to the
\* next, or from any of them to CLOSED; after RESPONSE it is CLOSED, it
\* never leaves CLOSED, and at most one request line is read on it.
C9_OneRequestInOrder ==
    [][ /\ nreq' <= 1
        /\ \A c \in Conns : cstate'[c] # cstate[c] =>
            \/ cstate[c] = "IDLE" /\ cstate'[c] = "QUEUED"
            \/ cstate[c] = "QUEUED" /\ cstate'[c] \in {"ACCEPTED", "RESET"}
            \/ cstate[c] \in Active /\ cstate'[c] = "CLOSED"
            \/ \E i \in 1..6 : cstate[c] = ConnOrder[i] /\ cstate'[c] = ConnOrder[i + 1] ]_vars

C9_Witness ==
    /\ cur # 0
    /\ cstate[cur] = "CLOSED"
    /\ nreq = 1
    /\ req.version = "HTTP/1.1"
    /\ resp.status = 200
    /\ resp.complete

\* C10: at most one connection is between accept and CLOSED, and a queued
\* connection is accepted only when no other is: while one client is in
\* its handshake or its request, every later client stays queued.
C10_OneConnectionAtATime ==
    [][ /\ Cardinality({c \in Conns : cstate'[c] \in Active}) <= 1
        /\ \A d \in Conns : (cstate[d] = "QUEUED" /\ cstate'[d] # "QUEUED") =>
            \/ cstate'[d] = "RESET"
            \/ (cstate'[d] = "ACCEPTED" /\ \A c \in Conns : cstate[c] \notin Active) ]_vars

C10_Witness ==
    /\ pc = "serving"
    /\ cstate[1] \in {"TLS_HANDSHAKE", "REQUEST_LINE"}
    /\ cstate[2] = "QUEUED"
=============================================================================
